---- MODULE Spec2Model ----
(***************************************************************************)
(* Minesweeper core (components.py): the Board with its cells, lazy mine   *)
(* placement anchored at the first reveal, the iterative flood reveal,     *)
(* flag toggling and the win / lose determination.                         *)
(***************************************************************************)
EXTENDS Integers, Sequences, FiniteSets, TLC

\* ------------------------------------------------------------------------
\* Bounds of the exploration
\* ------------------------------------------------------------------------
\* Boards played to the end (Spec)
MaxCols == 3
MaxRows == 3
MaxCells == 6
\* Boards taken through their first reveal only (SpecFirst)
MaxFirstCols == 4
MaxFirstRows == 4
MaxFirstCells == 16
MaxMines == 2
MaxFlags == 2

\* Hints of a game (Game.hints_left at its start)
HintsPerGame == 3

VARIABLES cols, rows, num_mines, cells, mines_placed, revealed_count,
          game_over, win,
          safe,   \* the (safe_col, safe_row) place_mines was called with
          stack,  \* the work list of the reveal call in progress, if any
          lifo,   \* what the last reveal call leaves when run as written
          hints_left

\* The variables of the Board
board == <<cols, rows, num_mines, cells, mines_placed, revealed_count,
           game_over, win, safe, stack, lifo>>

vars == <<cols, rows, num_mines, cells, mines_placed, revealed_count,
          game_over, win, safe, stack, lifo, hints_left>>

\* ------------------------------------------------------------------------
\* Cell state and addressing
\* ------------------------------------------------------------------------
CellState == [is_mine |-> FALSE, is_revealed |-> FALSE,
              is_flagged |-> FALSE, adjacent |-> 0]

Indices == 0 .. (cols * rows - 1)

index(col, row) == row * cols + col

\* Faulty variant: the upper limits are taken inclusive.
is_inbounds_inclusive(col, row) ==
    0 <= col /\ col <= cols /\ 0 <= row /\ row <= rows

is_inbounds(col, row) == 0 <= col /\ col < cols /\ 0 <= row /\ row < rows

Positions == {p \in (0 .. cols - 1) \X (0 .. rows - 1) : TRUE}

\* Faulty variant: only the four orthogonal offsets.
deltas_orthogonal == << <<0, -1>>, <<-1, 0>>, <<1, 0>>, <<0, 1>> >>

deltas == << <<-1, -1>>, <<0, -1>>, <<1, -1>>,
             <<-1, 0>>,             <<1, 0>>,
             <<-1, 1>>,  <<0, 1>>,  <<1, 1>> >>

neighbors(col, row) ==
    LET around == [k \in 1 .. Len(deltas) |->
                      <<col + deltas[k][1], row + deltas[k][2]>>]
    IN  SelectSeq(around, LAMBDA p : is_inbounds(p[1], p[2]))

Range(s) == {s[k] : k \in 1 .. Len(s)}

\* ------------------------------------------------------------------------
\* Mine placement
\* ------------------------------------------------------------------------
\* Faulty variant: only the clicked cell is kept out of the pool.
forbidden_click_only(safe_col, safe_row) == {<<safe_col, safe_row>>}

forbidden(safe_col, safe_row) ==
    {<<safe_col, safe_row>>} \cup Range(neighbors(safe_col, safe_row))

pool(safe_col, safe_row) == Positions \ forbidden(safe_col, safe_row)

Min(a, b) == IF a < b THEN a ELSE b

\* random.shuffle(pool) followed by pool[:num_mines]: any subset of the pool
\* with min(num_mines, len(pool)) members can come out.
\* Faulty variant: the slice takes one position too many.
shuffled_prefix_one_more(safe_col, safe_row) ==
    LET candidates == pool(safe_col, safe_row)
        taken      == Min(num_mines + 1, Cardinality(candidates))
    IN  {S \in SUBSET candidates : Cardinality(S) = taken}

shuffled_prefix(safe_col, safe_row) ==
    LET candidates == pool(safe_col, safe_row)
        taken      == Min(num_mines, Cardinality(candidates))
    IN  {S \in SUBSET candidates : Cardinality(S) = taken}

count_mine_neighbors(cs, c, r) ==
    Cardinality({p \in Range(neighbors(c, r)) : cs[index(p[1], p[2])].is_mine})

\* Faulty variant: the counts are not computed and stay 0.
compute_adjacency_none(mined) == mined

compute_adjacency(mined) ==
    [i \in Indices |->
        IF mined[i].is_mine
        THEN mined[i]
        ELSE [mined[i] EXCEPT
                !.adjacent = count_mine_neighbors(mined, i % cols, i \div cols)]]

place_mines(cs, chosen) ==
    LET mine_at == {index(p[1], p[2]) : p \in chosen}
    IN  compute_adjacency([i \in Indices |->
                             IF i \in mine_at
                             THEN [cs[i] EXCEPT !.is_mine = TRUE]
                             ELSE cs[i]])

\* ------------------------------------------------------------------------
\* Reveal
\* ------------------------------------------------------------------------
\* Faulty variant: the loss exposure marks every cell, not only the mines.
reveal_all_cells(cs) ==
    [i \in Indices |-> [cs[i] EXCEPT !.is_revealed = TRUE]]

\* Faulty variant: every mine the exposure marks is counted.
count_exposed_mines(cs, count) ==
    count + Cardinality({i \in Indices : cs[i].is_mine /\ ~cs[i].is_revealed})

\* revealed_count after _reveal_all_mines ran on cs: it is not written.
count_after_exposure(cs, count) == count

reveal_all_mines(cs) ==
    [i \in Indices |->
        IF cs[i].is_mine THEN [cs[i] EXCEPT !.is_revealed = TRUE] ELSE cs[i]]

\* Faulty variant: the flood goes on from numbered cells too.
expands_always(cell) == TRUE

\* Faulty variant: no cell pushes its neighbours.
expands_never(cell) == FALSE

expands(cell) == cell.adjacent = 0

open_neighbors(cs, c, r) ==
    SelectSeq(neighbors(c, r),
              LAMBDA q : /\ ~cs[index(q[1], q[2])].is_revealed
                         /\ ~cs[index(q[1], q[2])].is_flagged)

\* Faulty variant: the counter is incremented before the skip test, so a coordinate
\* popped a second time is counted again.
RECURSIVE reveal_stack_count_pops(_, _, _)
reveal_stack_count_pops(work, cs, count) ==
    IF work = <<>>
    THEN [cells |-> cs, revealed_count |-> count, hit |-> FALSE]
    ELSE LET p       == work[Len(work)]
             rest    == SubSeq(work, 1, Len(work) - 1)
             i       == index(p[1], p[2])
             current == cs[i]
         IN  IF current.is_revealed \/ current.is_flagged
             THEN reveal_stack_count_pops(rest, cs, count + 1)
             ELSE LET cs1 == [cs EXCEPT ![i].is_revealed = TRUE]
                  IN  IF current.is_mine
                      THEN [cells |-> reveal_all_mines(cs1),
                            revealed_count |-> count_after_exposure(cs1, count + 1),
                            hit |-> TRUE]
                      ELSE IF expands(current)
                      THEN reveal_stack_count_pops(
                               rest \o open_neighbors(cs1, p[1], p[2]),
                               cs1, count + 1)
                      ELSE reveal_stack_count_pops(rest, cs1, count + 1)

RECURSIVE reveal_stack(_, _, _)
reveal_stack(work, cs, count) ==
    IF work = <<>>
    THEN [cells |-> cs, revealed_count |-> count, hit |-> FALSE]
    ELSE LET p       == work[Len(work)]
             rest    == SubSeq(work, 1, Len(work) - 1)
             i       == index(p[1], p[2])
             current == cs[i]
         IN  IF current.is_revealed \/ current.is_flagged
             THEN reveal_stack(rest, cs, count)
             ELSE LET cs1 == [cs EXCEPT ![i].is_revealed = TRUE]
                  IN  IF current.is_mine
                      THEN [cells |-> reveal_all_mines(cs1),
                            revealed_count |-> count_after_exposure(cs1, count + 1),
                            hit |-> TRUE]
                      ELSE IF expands(current)
                      THEN reveal_stack(rest \o open_neighbors(cs1, p[1], p[2]),
                                        cs1, count + 1)
                      ELSE reveal_stack(rest, cs1, count + 1)

\* Faulty variant: the test on game_over is missing.
wins_even_if_over(count, over) == count = cols * rows - num_mines

wins(count, over) == count = cols * rows - num_mines /\ ~over

check_win(cs) ==
    [i \in Indices |->
        IF ~cs[i].is_revealed /\ ~cs[i].is_mine
        THEN [cs[i] EXCEPT !.is_revealed = TRUE]
        ELSE cs[i]]

\* Faulty variant: the flag test of the entry guards is missing.
reveal_guard_ignores_flag(col, row) ==
    /\ is_inbounds(col, row)
    /\ ~cells[index(col, row)].is_revealed

reveal_guard(col, row) ==
    /\ is_inbounds(col, row)
    /\ ~cells[index(col, row)].is_revealed
    /\ ~cells[index(col, row)].is_flagged

\* Faulty variant: the guard on the placement is dropped.
needs_placement_always == TRUE

needs_placement == ~mines_placed

\* Faulty variant: the flag is assigned the outcome of the call instead of only set.
game_over_assigned(hit) == hit

game_over_after(hit) == hit \/ game_over

\* The board a reveal call returns with, from what its loop left: the
\* return of the mine hit, or _check_win after the loop.
reveal_return(res) ==
    LET won == ~res.hit /\ wins(res.revealed_count, game_over)
    IN  [cells          |-> IF won THEN check_win(res.cells) ELSE res.cells,
         revealed_count |-> res.revealed_count,
         game_over      |-> game_over_after(res.hit),
         win            |-> (won \/ win)]

\* What a caller reads of the board after a call.
summary(out) ==
    [revealed       |-> {i \in Indices : out.cells[i].is_revealed},
     revealed_count |-> out.revealed_count,
     game_over      |-> out.game_over,
     win            |-> out.win]

\* reveal(col, row) past its guards on the cells `placed`, run to its end.
reveal_call(col, row, placed) ==
    {reveal_return(res) :
        res \in {reveal_stack(<< <<col, row>> >>, placed, revealed_count)}}

reveal(col, row) ==
    IF ~reveal_guard(col, row)
    THEN UNCHANGED board
    ELSE \E chosen \in (IF needs_placement
                        THEN shuffled_prefix(col, row) ELSE {{}}) :
           \E out \in reveal_call(col, row,
                                  IF needs_placement
                                  THEN place_mines(cells, chosen) ELSE cells) :
               /\ mines_placed' = (IF needs_placement THEN TRUE ELSE mines_placed)
               /\ revealed_count' = out.revealed_count
               /\ game_over' = out.game_over
               /\ win' = out.win
               /\ cells' = out.cells
               /\ safe' = (IF needs_placement THEN <<col, row>> ELSE safe)
               /\ lifo' = summary(out)
               /\ UNCHANGED <<cols, rows, num_mines, stack>>

\* reveal called for a click: the hints of the game stay as they are.
Reveal(col, row) == reveal(col, row) /\ UNCHANGED hints_left

\* ------------------------------------------------------------------------
\* Flags
\* ------------------------------------------------------------------------
flagged_count == Cardinality({i \in Indices : cells[i].is_flagged})

\* Faulty variant: the flag is set, never cleared.
toggle_flag_sets(cs, col, row) ==
    IF ~is_inbounds(col, row)
    THEN cs
    ELSE IF ~cs[index(col, row)].is_revealed
    THEN [cs EXCEPT ![index(col, row)].is_flagged = TRUE]
    ELSE cs

\* Faulty variant: the test on is_revealed is missing.
toggle_flag_any(cs, col, row) ==
    IF ~is_inbounds(col, row)
    THEN cs
    ELSE [cs EXCEPT ![index(col, row)].is_flagged = ~@]

toggle_flag(cs, col, row) ==
    IF ~is_inbounds(col, row)
    THEN cs
    ELSE IF ~cs[index(col, row)].is_revealed
    THEN [cs EXCEPT ![index(col, row)].is_flagged = ~@]
    ELSE cs

\* A caller keeps at most MaxFlags cells flagged at a time.
ToggleFlag(col, row) ==
    /\ is_inbounds(col, row) /\ ~cells[index(col, row)].is_flagged
          => flagged_count < MaxFlags
    /\ cells' = toggle_flag(cells, col, row)
    /\ UNCHANGED <<cols, rows, num_mines, mines_placed, revealed_count,
                   game_over, win, safe, stack, lifo, hints_left>>

\* ------------------------------------------------------------------------
\* reveal, one iteration of its loop at a time
\* ------------------------------------------------------------------------
\* Faulty variant: the popped cell is not marked.
mark_nothing(cs, i) == cs

mark_revealed(cs, i) == [cs EXCEPT ![i].is_revealed = TRUE]

\* The work list without its k-th coordinate; stack.pop() takes the last.
pop_at(work, k) == SubSeq(work, 1, k - 1) \o SubSeq(work, k + 1, Len(work))

\* The call passes its guards, places the mines if they are not placed yet
\* and starts the work list with its coordinate.
Enter(col, row) ==
    /\ stack = <<>>
    /\ reveal_guard(col, row)
    /\ \E chosen \in (IF needs_placement
                       THEN shuffled_prefix(col, row) ELSE {{}}) :
         \E placed \in {IF needs_placement
                        THEN place_mines(cells, chosen) ELSE cells} :
             /\ cells' = placed
             /\ mines_placed' = (IF needs_placement THEN TRUE ELSE mines_placed)
             /\ safe' = (IF needs_placement THEN <<col, row>> ELSE safe)
             /\ stack' = << <<col, row>> >>
             /\ \E out \in reveal_call(col, row, placed) : lifo' = summary(out)
             /\ UNCHANGED <<cols, rows, num_mines, revealed_count,
                            game_over, win, hints_left>>

\* One iteration of the loop, taking the k-th coordinate of the work list;
\* the iteration that ends the loop returns, through _check_win unless it
\* hit a mine.
StepAt(k) ==
    /\ k \in 1 .. Len(stack)
    /\ LET p       == stack[k]
           rest    == pop_at(stack, k)
           i       == index(p[1], p[2])
           current == cells[i]
           skip    == current.is_revealed \/ current.is_flagged
           cs1     == IF skip THEN cells ELSE mark_revealed(cells, i)
           count   == IF skip THEN revealed_count ELSE revealed_count + 1
           hit     == ~skip /\ current.is_mine
           work    == IF hit THEN <<>>
                      ELSE IF ~skip /\ expands(current)
                      THEN rest \o open_neighbors(cs1, p[1], p[2])
                      ELSE rest
           out     == IF work = <<>>
                      THEN reveal_return(
                             [cells |-> IF hit THEN reveal_all_mines(cs1) ELSE cs1,
                              revealed_count |->
                                  IF hit THEN count_after_exposure(cs1, count)
                                  ELSE count,
                              hit |-> hit])
                      ELSE [cells |-> cs1, revealed_count |-> count,
                            game_over |-> game_over, win |-> win]
       IN  /\ stack' = work
           /\ cells' = out.cells
           /\ revealed_count' = out.revealed_count
           /\ game_over' = out.game_over
           /\ win' = out.win
           /\ UNCHANGED <<cols, rows, num_mines, mines_placed, safe, lifo,
                          hints_left>>

Step == StepAt(Len(stack))

\* ------------------------------------------------------------------------
\* Specification
\* ------------------------------------------------------------------------
\* Coordinates a caller passes: every cell of the board and one coordinate
\* past each side of it.
Inputs ==
    Positions \cup {<<-1, 0>>, <<0, -1>>, <<cols, 0>>, <<0, rows>>}

Board(c, r, mines) ==
    /\ cols = c
    /\ rows = r
    /\ num_mines = mines
    /\ cells = [i \in 0 .. (c * r - 1) |-> CellState]
    /\ mines_placed = FALSE
    /\ revealed_count = 0
    /\ game_over = FALSE
    /\ win = FALSE
    /\ safe = <<>>
    /\ stack = <<>>
    /\ lifo = [revealed |-> {}, revealed_count |-> 0,
               game_over |-> FALSE, win |-> FALSE]

Init ==
    \E c \in 1 .. MaxCols, r \in 1 .. MaxRows, mines \in 0 .. MaxMines :
        c * r <= MaxCells /\ Board(c, r, mines) /\ hints_left = HintsPerGame

Next ==
    \/ \E p \in Inputs : Reveal(p[1], p[2])
    \/ \E p \in Inputs : ToggleFlag(p[1], p[2])

Spec == Init /\ [][Next]_vars

\* The opening of a game on larger boards: the first reveal, which places
\* the mines and floods from its cell.
InitFirst ==
    \E c \in 1 .. MaxFirstCols, r \in 1 .. MaxFirstRows, mines \in 0 .. MaxMines :
        c * r <= MaxFirstCells /\ Board(c, r, mines)
                               /\ hints_left = HintsPerGame

NextFirst == \E p \in Inputs : ~mines_placed /\ Reveal(p[1], p[2])

SpecFirst == InitFirst /\ [][NextFirst]_vars

\* The same games with reveal taken one iteration of its loop at a time; the
\* caller acts between calls, and a call that has started runs on.
NextLoop ==
    \/ \E p \in Inputs : Enter(p[1], p[2])
    \/ Step
    \/ \E p \in Inputs : stack = <<>> /\ ToggleFlag(p[1], p[2])

SpecLoop == Init /\ [][NextLoop]_vars /\ WF_vars(Step)

\* The loop taking its next coordinate from any place of the work list.
NextAnyOrder ==
    \/ \E p \in Inputs : Enter(p[1], p[2])
    \/ \E k \in 1 .. Len(stack) : StepAt(k)
    \/ \E p \in Inputs : stack = <<>> /\ ToggleFlag(p[1], p[2])

SpecAnyOrder == Init /\ [][NextAnyOrder]_vars

\* ------------------------------------------------------------------------
\* The game around the board (run.py): clicks, the hint key and the restart
\* keys. The timer, the highlight and the best times are of the presentation
\* and no part of the state here.
\* ------------------------------------------------------------------------
\* A left click on the cell pos_to_grid found under the pointer.
HandleMouseLeft(col, row) == is_inbounds(col, row) /\ Reveal(col, row)

\* A right click on the cell under the pointer.
HandleMouseRight(col, row) == is_inbounds(col, row) /\ ToggleFlag(col, row)

hint_guard == hints_left > 0 /\ ~(game_over \/ win)

candidates ==
    {p \in Positions : /\ ~cells[index(p[1], p[2])].is_mine
                       /\ ~cells[index(p[1], p[2])].is_revealed}

Hint ==
    IF ~hint_guard \/ candidates = {}
    THEN UNCHANGED vars
    ELSE \E p \in candidates :
            /\ reveal(p[1], p[2])
            /\ hints_left' = hints_left - 1

\* Restart (R), or another difficulty (1, 2, 3): a new board, three hints.
Reset ==
    \E c \in 1 .. MaxCols, r \in 1 .. MaxRows, mines \in 0 .. MaxMines :
        /\ c * r <= MaxCells
        /\ cols' = c
        /\ rows' = r
        /\ num_mines' = mines
        /\ cells' = [i \in 0 .. (c * r - 1) |-> CellState]
        /\ mines_placed' = FALSE
        /\ revealed_count' = 0
        /\ game_over' = FALSE
        /\ win' = FALSE
        /\ safe' = <<>>
        /\ stack' = <<>>
        /\ lifo' = [revealed |-> {}, revealed_count |-> 0,
                    game_over |-> FALSE, win |-> FALSE]
        /\ hints_left' = HintsPerGame

NextGame ==
    \/ \E p \in Inputs : HandleMouseLeft(p[1], p[2])
    \/ \E p \in Inputs : HandleMouseRight(p[1], p[2])
    \/ Hint
    \/ Reset

SpecGame == Init /\ [][NextGame]_vars

\* ------------------------------------------------------------------------
\* Vocabulary of the properties (stated on the cells, not through the
\* operators of the handlers above)
\* ------------------------------------------------------------------------
Mines == {i \in Indices : cells[i].is_mine}

NonMines == {i \in Indices : ~cells[i].is_mine}

Revealed == {i \in Indices : cells[i].is_revealed}

Flagged == {i \in Indices : cells[i].is_flagged}

Dist(a, b) == IF a < b THEN b - a ELSE a - b

\* The cell (c,r) with its in-bounds Moore neighbours, as flat indices.
SafeZone(c, r) ==
    {i \in Indices : Dist(i % cols, c) <= 1 /\ Dist(i \div cols, r) <= 1}

Hidden(c, r) ==
    /\ c \in 0 .. cols - 1
    /\ r \in 0 .. rows - 1
    /\ ~cells[r * cols + c].is_revealed
    /\ ~cells[r * cols + c].is_flagged

\* ------------------------------------------------------------------------
\* C1 - First-click safety: after the first reveal(c,r) that passes the
\* entry guards has placed the mines, (c,r) and each of its in-bounds Moore
\* neighbours is free of mines, whatever the board, mine count and shuffle.
\* ------------------------------------------------------------------------
C1_FirstClickSafe ==
    mines_placed =>
        /\ Len(safe) = 2
        /\ \A i \in SafeZone(safe[1], safe[2]) : ~cells[i].is_mine

\* A first reveal in the interior of the board, its nine cells free of
\* mines and mines placed around them.
C1_Witness ==
    /\ mines_placed
    /\ Cardinality(SafeZone(safe[1], safe[2])) = 9
    /\ Cardinality(Mines) = 2
    /\ SafeZone(safe[1], safe[2]) \subseteq Revealed

\* ------------------------------------------------------------------------
\* C2 - A board whose mine count exceeds the candidate pool is rejected
\* rather than placed with fewer mines: no board ever completes placement
\* with a number of mines other than num_mines.
\* ------------------------------------------------------------------------
C2_OverfullRejected ==
    mines_placed => Cardinality(Mines) = num_mines

\* ------------------------------------------------------------------------
\* C3 - game_over and win are never both true, in any state reachable by
\* reveal and toggle_flag calls (calls after the end of the game included).
\* ------------------------------------------------------------------------
C3_Exclusive == ~(game_over /\ win)

\* ------------------------------------------------------------------------
\* C4 - Terminal flags are absorbing: once game_over is true it stays true
\* and once win is true it stays true under every later call.
\* ------------------------------------------------------------------------
C4_Absorbing ==
    [][(game_over => game_over') /\ (win => win')]_vars

\* win was set, a later reveal hit a mine, and both flags are still set.
C4_Witness ==
    /\ game_over
    /\ win
    /\ Cardinality(Mines) = 2

\* ------------------------------------------------------------------------
\* C5 - Win condition: with no mine hit, the reveal call that reveals the
\* last unrevealed non-mine cell sets win, and every non-mine cell is
\* revealed after it.
\* ------------------------------------------------------------------------
AllSafeRevealed == \A i \in Indices : cells[i].is_mine \/ cells[i].is_revealed

C5_WinOnLastSafeCell ==
    [][\A p \in Inputs :
          (/\ ~game_over
           /\ Hidden(p[1], p[2])
           /\ Reveal(p[1], p[2])
           /\ ~game_over'
           /\ AllSafeRevealed')
              => win']_vars

\* ------------------------------------------------------------------------
\* C6 - Mine hit terminality: reveal of an unrevealed, unflagged mine sets
\* game_over, marks every mine revealed and leaves is_revealed, is_flagged
\* and adjacent of every non-mine cell as they were.
\* ------------------------------------------------------------------------
C6_MineHit ==
    [][\A p \in Inputs :
          (/\ Hidden(p[1], p[2])
           /\ cells[p[2] * cols + p[1]].is_mine
           /\ Reveal(p[1], p[2]))
              => /\ game_over'
                 /\ \A i \in Indices :
                       IF cells[i].is_mine
                       THEN cells'[i].is_mine /\ cells'[i].is_revealed
                       ELSE cells'[i] = cells[i]]_vars

C6_Witness ==
    /\ game_over
    /\ Cardinality(Mines) = 2
    /\ Mines \subseteq Revealed
    /\ \E i \in NonMines : ~cells[i].is_revealed /\ cells[i].is_flagged
    /\ \E i \in NonMines : ~cells[i].is_revealed /\ ~cells[i].is_flagged
\* ------------------------------------------------------------------------
\* C7 - Flood completeness: reveal of an unrevealed, unflagged non-mine
\* cell with adjacent = 0 leaves revealed exactly the previously revealed
\* cells, that cell's whole 8-connected region of zero-adjacent cells and
\* the numbered cells bordering that region.
\* ------------------------------------------------------------------------
Touching(i, j) ==
    /\ i # j
    /\ Dist(i % cols, j % cols) <= 1
    /\ Dist(i \div cols, j \div cols) <= 1

IsZero(cs, j) == ~cs[j].is_mine /\ cs[j].adjacent = 0

RECURSIVE ZeroRegion(_, _)
ZeroRegion(cs, S) ==
    LET more == {j \in Indices \ S :
                    IsZero(cs, j) /\ \E i \in S : Touching(i, j)}
    IN  IF more = {} THEN S ELSE ZeroRegion(cs, S \cup more)

NumberedBorder(cs, S) ==
    {j \in Indices \ S :
        ~cs[j].is_mine /\ cs[j].adjacent > 0 /\ \E i \in S : Touching(i, j)}

C7_FloodWholeRegion ==
    [][\A p \in Inputs :
          (/\ Hidden(p[1], p[2])
           /\ Reveal(p[1], p[2])
           /\ IsZero(cells', p[2] * cols + p[1]))
              => LET region == ZeroRegion(cells', {p[2] * cols + p[1]})
                 IN  Revealed' =
                        Revealed \cup region \cup NumberedBorder(cells', region)]_vars

\* C7 as amended: the flood passes only through cells that were unrevealed
\* and unflagged before the call, so the call reveals the part of the zero
\* region reachable through such cells and the unflagged, unrevealed cells
\* touching that part; flagged cells stay as they are.  When the call sets
\* win, check_win also marks every remaining non-mine cell.
Open(cs, j) == ~cs[j].is_revealed /\ ~cs[j].is_flagged

RECURSIVE OpenFlood(_, _, _)
OpenFlood(before, after, S) ==
    LET more == {j \in Indices \ S :
                    /\ Open(before, j)
                    /\ \E i \in S : IsZero(after, i) /\ Touching(i, j)}
    IN  IF more = {} THEN S ELSE OpenFlood(before, after, S \cup more)

C7_FloodOpenRegion ==
    [][\A p \in Inputs :
          (/\ Hidden(p[1], p[2])
           /\ Reveal(p[1], p[2])
           /\ IsZero(cells', p[2] * cols + p[1]))
              => LET flood == OpenFlood(cells, cells', {p[2] * cols + p[1]})
                     rest  == IF win' THEN {j \in Indices : ~cells'[j].is_mine}
                                      ELSE {}
                 IN  /\ Revealed' = Revealed \cup flood \cup rest
                     /\ \A j \in Indices : cells'[j].is_flagged = cells[j].is_flagged
                     /\ flood \subseteq
                          LET region == ZeroRegion(cells', {p[2] * cols + p[1]})
                          IN  region \cup NumberedBorder(cells', region)]_vars

\* A flood stopped at a flag: a revealed zero cell next to a flagged,
\* unrevealed cell, with a numbered cell revealed and the game still open.
C7_Witness ==
    /\ ~win
    /\ ~game_over
    /\ \E i \in Revealed : /\ IsZero(cells, i)
                           /\ \E j \in Flagged \ Revealed : Touching(i, j)
    /\ \E i \in Revealed : ~cells[i].is_mine /\ cells[i].adjacent > 0
    /\ \E i \in NonMines \ Revealed : ~cells[i].is_flagged
\* ------------------------------------------------------------------------
\* C8 - revealed_count equals the number of cells with is_revealed, in
\* every reachable state (after a loss and after a win included).
\* ------------------------------------------------------------------------
C8_CountExact == revealed_count = Cardinality(Revealed)

\* C8 as amended: revealed_count equals the number of revealed cells as
\* long as neither game_over nor win is set, and never exceeds it afterwards
\* (the mine exposure on loss and the completion on win mark cells without
\* counting them).
C8_CountWhilePlaying ==
    /\ revealed_count <= Cardinality(Revealed)
    /\ (~game_over /\ ~win) => revealed_count = Cardinality(Revealed)

\* A flood that revealed several cells, the game still open.
C8_Witness ==
    /\ ~game_over
    /\ ~win
    /\ Mines # {}
    /\ revealed_count >= 3
    /\ revealed_count = Cardinality(Revealed)

\* ------------------------------------------------------------------------
\* C9 - Mine placement is a one-shot Unplaced -> Placed transition: no cell
\* is a mine while the board is unplaced, only a reveal that passes the
\* entry guards places the mines, and once placed the set of mine cells
\* never changes.
\* ------------------------------------------------------------------------
C9_PlacedOnce ==
    [][/\ ~mines_placed => Mines = {}
       /\ ~mines_placed' => Mines' = {}
       /\ mines_placed => mines_placed' /\ Mines' = Mines
       /\ (~mines_placed /\ mines_placed')
             => /\ \E p \in Inputs : Hidden(p[1], p[2]) /\ Reveal(p[1], p[2])
                /\ ~(\E p \in Inputs : ToggleFlag(p[1], p[2]))]_vars

\* Placed, then played on: flags toggled and cells revealed after the
\* placing reveal, up to a lost game.
C9_Witness ==
    /\ mines_placed
    /\ Cardinality(Mines) = 2
    /\ game_over
    /\ Flagged # {}
    /\ \E i \in NonMines : cells[i].is_revealed

\* ------------------------------------------------------------------------
\* C10 - After placement exactly num_mines cells are mines, all of them in
\* the candidate pool (the board minus the safe cell and its neighbours),
\* for every num_mines that fits in the pool.
\* ------------------------------------------------------------------------
CandidatePool(c, r) == Indices \ SafeZone(c, r)

C10_ExactMines ==
    (mines_placed /\ num_mines <= Cardinality(CandidatePool(safe[1], safe[2])))
        => /\ Cardinality(Mines) = num_mines
           /\ Mines \subseteq CandidatePool(safe[1], safe[2])

C10_Witness ==
    /\ mines_placed
    /\ num_mines = 2
    /\ Cardinality(CandidatePool(safe[1], safe[2])) > 2
    /\ Cardinality(Mines) = 2

\* ------------------------------------------------------------------------
\* C11 - Adjacency correctness: once the mines are placed, adjacent of every
\* non-mine cell is the number of its in-bounds Moore neighbours that are
\* mines, and no later operation changes it.
\* ------------------------------------------------------------------------
MineNeighbours(cs, i) ==
    Cardinality({j \in Indices : Touching(i, j) /\ cs[j].is_mine})

C11_Adjacency ==
    /\ [](mines_placed =>
            \A i \in NonMines : cells[i].adjacent = MineNeighbours(cells, i))
    /\ [][mines_placed =>
            \A i \in Indices : cells'[i].adjacent = cells[i].adjacent]_vars

\* Cells with no, one and two mines around them, and the game played on
\* after the placement up to a loss.
C11_Witness ==
    /\ mines_placed
    /\ game_over
    /\ \E i \in NonMines : cells[i].adjacent = 2 /\ MineNeighbours(cells, i) = 2
    /\ \E i \in NonMines : cells[i].adjacent = 0 /\ cells[i].is_revealed
    /\ Flagged # {}
\* ------------------------------------------------------------------------
\* C12 - The entry guards of reveal are total no-ops: reveal(c,r) out of
\* bounds, on a revealed cell or on a flagged cell changes nothing of the
\* board, and as the first reveal of a game it does not place the mines.
\* ------------------------------------------------------------------------
C12_GuardedRevealNoOp ==
    [][\A p \in Inputs :
          (~Hidden(p[1], p[2]) /\ Reveal(p[1], p[2]))
              => /\ cells' = cells
                 /\ mines_placed' = mines_placed
                 /\ revealed_count' = revealed_count
                 /\ game_over' = game_over
                 /\ win' = win]_vars

\* An unplaced board with a flagged cell: a reveal of that cell would be
\* the first reveal of the game.
C12_Witness ==
    /\ ~mines_placed
    /\ Cardinality(Flagged) = 2
    /\ Mines = {}

\* ------------------------------------------------------------------------
\* C13 - toggle_flag(c,r) is a no-op out of bounds and on a revealed cell;
\* otherwise it flips is_flagged of that one cell and changes nothing else,
\* so that a second toggle_flag(c,r) restores the state.
\* ------------------------------------------------------------------------
C13_ToggleFlips ==
    [][\A p \in Inputs :
          ToggleFlag(p[1], p[2])
              => /\ mines_placed' = mines_placed
                 /\ revealed_count' = revealed_count
                 /\ game_over' = game_over
                 /\ win' = win
                 /\ IF /\ p[1] \in 0 .. cols - 1
                       /\ p[2] \in 0 .. rows - 1
                       /\ ~cells[p[2] * cols + p[1]].is_revealed
                    THEN /\ \A i \in Indices :
                               cells'[i] =
                                  IF i = p[2] * cols + p[1]
                                  THEN [cells[i] EXCEPT
                                          !.is_flagged = ~cells[i].is_flagged]
                                  ELSE cells[i]
                         /\ toggle_flag(cells', p[1], p[2]) = cells
                    ELSE cells' = cells]_vars

\* Flags set and cleared around revealed cells on a placed board.
C13_Witness ==
    /\ Cardinality(Flagged) = 2
    /\ Revealed # {}
    /\ Cardinality(Mines) = 2
    /\ ~game_over
    /\ ~win
\* ------------------------------------------------------------------------
\* C14 - On a freshly constructed board without mines, any in-bounds reveal
\* reveals every cell, sets win and leaves revealed_count = cols * rows.
\* ------------------------------------------------------------------------
C14_NoMinesWinsAtOnce ==
    (mines_placed /\ num_mines = 0)
        => /\ \A i \in Indices : cells[i].is_revealed
           /\ win
           /\ ~game_over
           /\ revealed_count = cols * rows

\* The 2x2 board without mines after its first reveal.
C14_Witness ==
    /\ cols = 2
    /\ rows = 2
    /\ num_mines = 0
    /\ mines_placed
    /\ Cardinality(Revealed) = 4
    /\ revealed_count = 4
    /\ win
\* ------------------------------------------------------------------------
\* C15 - A flagged cell never becomes revealed while it is flagged, by any
\* path, and a revealed cell is never flagged: in every reachable state no
\* cell has is_revealed and is_flagged both true.
\* ------------------------------------------------------------------------
Both == {i \in Indices : cells[i].is_revealed /\ cells[i].is_flagged}

C15_NeverBoth == Both = {}

\* C15 as the code has it: the work-list loop never marks a flagged cell and
\* toggle_flag never touches a revealed one, so a cell is revealed and
\* flagged at once only as a flagged mine exposed by the loss, or as a
\* flagged mine-free cell opened by the completion of a win.
C15_BothOnlyAtGameEnd ==
    /\ [](\A i \in Both : \/ cells[i].is_mine /\ game_over
                          \/ ~cells[i].is_mine /\ win)
    /\ [][\A i \in Indices :
            /\ cells[i].is_revealed
                 => cells'[i].is_flagged = cells[i].is_flagged
            /\ (cells[i].is_flagged /\ ~cells[i].is_revealed
                   /\ cells'[i].is_revealed)
                 => \/ cells[i].is_mine /\ ~game_over /\ game_over'
                    \/ ~cells[i].is_mine /\ ~win /\ win']_vars

\* A lost game whose exposure opened a flagged mine, beside a flagged
\* mine-free cell that stayed closed.
C15_Witness ==
    /\ game_over
    /\ ~win
    /\ \E i \in Both : cells[i].is_mine
    /\ \E i \in Flagged \ Both : ~cells[i].is_mine
\* ------------------------------------------------------------------------
\* C16 - Flood order independence: for a given board and reveal(c,r), the
\* resulting revealed cells, revealed_count, game_over and win are the same
\* whichever order coordinates are taken from the work list.
\* ------------------------------------------------------------------------
C16_OrderIndependent ==
    stack = <<>> =>
        lifo = [revealed       |-> Revealed,
                revealed_count |-> revealed_count,
                game_over      |-> game_over,
                win            |-> win]

\* A flood of at least five cells, finished in some order, on a board with a
\* mine and a flag.
C16_Witness ==
    /\ stack = <<>>
    /\ Cardinality(Revealed) >= 5
    /\ Mines # {}
    /\ Flagged # {}
    /\ revealed_count >= 5
\* ------------------------------------------------------------------------
\* C17 - Every reveal call terminates: the work list becomes empty, because
\* each iteration either skips its coordinate, leaving the cells as they are
\* until the call returns, or marks a cell that was not revealed before, and
\* at most cols * rows cells are marked in a game.
\* ------------------------------------------------------------------------
C17_Terminates ==
    /\ (stack # <<>>) ~> (stack = <<>>)
    /\ [][stack # <<>> =>
            \/ /\ stack' # <<>> => cells' = cells
               /\ revealed_count' = revealed_count
               /\ Len(stack') = Len(stack) - 1
            \/ /\ revealed_count' = revealed_count + 1
               /\ \E i \in Indices :
                     /\ ~cells[i].is_revealed
                     /\ cells'[i].is_revealed
                     /\ stack[Len(stack)] = <<i % cols, i \div cols>>
               /\ \A i \in Indices : cells[i].is_revealed => cells'[i].is_revealed]_vars
    /\ [](revealed_count <= cols * rows)

\* A call in progress whose work list holds one coordinate twice and one of
\* a cell that has been revealed since it was pushed.
C17_Witness ==
    /\ Len(stack) >= 4
    /\ \E j, k \in 1 .. Len(stack) : j < k /\ stack[j] = stack[k]
    /\ \E k \in 1 .. Len(stack) : cells[index(stack[k][1], stack[k][2])].is_revealed
    /\ revealed_count >= 2
\* ------------------------------------------------------------------------
\* C18 - Mine exposure on loss does not touch revealed_count: a reveal that
\* hits a mine increases revealed_count by exactly 1, however many other
\* mines _reveal_all_mines marks revealed.
\* ------------------------------------------------------------------------
C18_HitCountsOne ==
    [][\A p \in Positions :
          (/\ Hidden(p[1], p[2])
           /\ cells[p[2] * cols + p[1]].is_mine
           /\ Reveal(p[1], p[2]))
              => /\ revealed_count' = revealed_count + 1
                 /\ \A i \in Mines : cells'[i].is_revealed
                 /\ \A i \in NonMines : cells'[i] = cells[i]]_vars

\* A lost game in which the exposure opened more mines than the one hit:
\* more cells are revealed than were counted.
C18_Witness ==
    /\ game_over
    /\ Cardinality(Mines) = 2
    /\ Mines \subseteq Revealed
    /\ Cardinality(Revealed) > revealed_count
    /\ revealed_count >= 2
\* ------------------------------------------------------------------------
\* C19 - win is set only by a reveal call that ends without hitting a mine,
\* in a state where revealed_count = cols * rows - num_mines and game_over
\* is false; toggle_flag never changes win or game_over.
\* ------------------------------------------------------------------------
C19_WinOnlyByCount ==
    /\ [][(~win /\ win')
             => /\ \E p \in Positions : Hidden(p[1], p[2]) /\ Reveal(p[1], p[2])
                /\ ~game_over
                /\ ~game_over'
                /\ revealed_count' > revealed_count
                /\ revealed_count' = cols * rows - num_mines
                /\ \A i \in Indices : cells'[i].is_mine => ~cells'[i].is_revealed]_vars
    /\ [][\A p \in Inputs :
             ToggleFlag(p[1], p[2]) => win' = win /\ game_over' = game_over]_vars

\* A game won by revealing, with both of its mines flagged on the way.
C19_Witness ==
    /\ win
    /\ ~game_over
    /\ num_mines = 2
    /\ Cardinality(Mines) = 2
    /\ Mines \subseteq Flagged
    /\ revealed_count = cols * rows - 2
\* ------------------------------------------------------------------------
\* C20 - Flood expansion never reveals a mine: a mine is marked revealed only
\* by a reveal call whose own coordinate is a mine, and game_over is set
\* only by such a call.
\* ------------------------------------------------------------------------
AimedAtMine ==
    \E p \in Positions : /\ Hidden(p[1], p[2])
                         /\ cells[p[2] * cols + p[1]].is_mine
                         /\ Reveal(p[1], p[2])

C20_FloodSparesMines ==
    /\ [][(\E i \in Indices : /\ cells'[i].is_mine
                              /\ cells'[i].is_revealed
                              /\ ~cells[i].is_revealed) => AimedAtMine]_vars
    /\ [][(~game_over /\ game_over') => AimedAtMine]_vars

\* A flood that ran from a cell without mine neighbours up to the numbers
\* around two mines and left both closed.
C20_Witness ==
    /\ ~game_over
    /\ Cardinality(Mines) = 2
    /\ Mines \cap Revealed = {}
    /\ \E i \in Revealed : cells[i].adjacent = 0
    /\ \E i \in Revealed : cells[i].adjacent = 2
    /\ Flagged = {}
\* ------------------------------------------------------------------------
\* C21 - The caller stops issuing commands after the game ends: once
\* game_over or win is true, neither a click nor the hint key calls reveal
\* or toggle_flag on that board until reset replaces it.
\* ------------------------------------------------------------------------
C21_CallerStops ==
    [][(game_over \/ win)
          => ~(\E p \in Positions : \/ HandleMouseLeft(p[1], p[2])
                                    \/ HandleMouseRight(p[1], p[2]))]_vars

\* ------------------------------------------------------------------------
\* C22 - Every hint that decrements hints_left marks at least one
\* previously unrevealed non-mine cell revealed and never sets game_over,
\* and hints_left never goes below 0.
\* ------------------------------------------------------------------------
C22_HintReveals ==
    /\ [](hints_left >= 0)
    /\ [][hints_left' = hints_left - 1
            => /\ ~game_over'
               /\ \E i \in Indices : /\ ~cells[i].is_revealed
                                     /\ cells'[i].is_revealed
                                     /\ ~cells'[i].is_mine]_vars
\* ------------------------------------------------------------------------
\* C23 - neighbors(col, row) returns exactly the in-bounds coordinates among
\* the 8 Moore offsets of (col, row): never (col, row) itself, never an
\* out-of-bounds coordinate, no duplicates, at most 8 entries.
\* ------------------------------------------------------------------------
Moore(p) ==
    {q \in (p[1] - 1 .. p[1] + 1) \X (p[2] - 1 .. p[2] + 1) : q # p}

C23_NeighborsExact ==
    \A p \in Inputs :
        \E n \in {neighbors(p[1], p[2])} :
            /\ Range(n) = {q \in Moore(p) : /\ q[1] \in 0 .. cols - 1
                                            /\ q[2] \in 0 .. rows - 1}
            /\ p \notin Range(n)
            /\ \A j, k \in 1 .. Len(n) : j # k => n[j] # n[k]
            /\ Len(n) <= 8

\* A 4x4 board after its first reveal: neighbors was taken of interior cells
\* (8 entries), of border cells (5) and of corners (3).
C23_Witness ==
    /\ cols = 4
    /\ rows = 4
    /\ mines_placed
    /\ Len(neighbors(1, 2)) = 8
    /\ Len(neighbors(0, 2)) = 5
    /\ Len(neighbors(3, 3)) = 3
    /\ Len(neighbors(-1, 0)) = 2

====
